---------------------------- MODULE Spec2Model ----------------------------
(***************************************************************************)
(* A model of joplin_mcp.py: the request dispatcher _make_request and the  *)
(* seven tools registered with @mcp.tool().                                *)
(*                                                                         *)
(* A tool invocation is a coroutine.  It runs atomically between its       *)
(* await points (async with ... __aenter__, client.request, __aexit__), so *)
(* each action below is one such segment of one invocation, and the        *)
(* invocations of different call slots interleave at those points.         *)
(***************************************************************************)
EXTENDS Integers, Sequences, FiniteSets, TLC

VARIABLES
    JOPLIN_BASE_URL,  \* module-level configuration, joplin_mcp.py line 8
    JOPLIN_TOKEN,     \* module-level configuration, joplin_mcp.py line 9
    frame,            \* frame[c]: the locals of the invocation in call slot c
    heap,             \* heap[a]: the contents of the params dict object at address a
    permanentSeen     \* history: a request carrying permanent has been put on the wire

vars == <<JOPLIN_BASE_URL, JOPLIN_TOKEN, frame, heap, permanentSeen>>

(***************************************************************************)
(* Bounds of the model.                                                    *)
(***************************************************************************)
\* The number of call slots: invocations the host may have in flight at once.
NumCalls == 2

Calls == 1..NumCalls

(***************************************************************************)
(* Python values, tagged by type so that values of different types can be  *)
(* told apart: None, str, int, bool, dict, list.                           *)
(***************************************************************************)
None == <<"null">>
Str(s) == <<"str", s>>
Num(n) == <<"int", n>>
PyBool(b) == <<"bool", b>>
Dict(f) == <<"dict", f>>
List(s) == <<"list", s>>

EmptyDict == [k \in {} |-> None]

IsDict(v) == v[1] = "dict"

\* bool(v): Python's truth value of v, as tested by `if v:` and `v or w`.
Truthy(v) ==
    CASE v[1] = "null" -> FALSE
      [] v[1] = "str"  -> v[2] # ""
      [] v[1] = "int"  -> v[2] # 0
      [] v[1] = "bool" -> v[2]
      [] v[1] = "dict" -> DOMAIN v[2] # {}
      [] v[1] = "list" -> Len(v[2]) > 0

\* d[k] = v on the mapping d.
SetItem(d, k, v) == [x \in DOMAIN d \cup {k} |-> IF x = k THEN v ELSE d[x]]

\* d.get(k, default) on the mapping d.
Get(d, k, default) == IF k \in DOMAIN d THEN d[k] ELSE default

\* A keyword argument of a call, or the parameter's default when it is omitted.
Arg(kw, name, default) == Get(kw, name, default)

(***************************************************************************)
(* The tools: each operator is the body of one tool up to its call of      *)
(* _make_request, and gives that call's arguments; post says what the tool *)
(* does with the value _make_request returns.                              *)
(***************************************************************************)
NOTE_FIELDS == "id,title,updated_time,created_time,parent_id,is_todo,todo_completed"
NOTE_FIELDS_WITH_BODY == "id,title,body,updated_time,created_time,parent_id,is_todo,todo_completed"
FOLDER_FIELDS == "id,title,updated_time,created_time,parent_id"

\* The defaults of limit and page.
DefaultLimit == 10
DefaultPage == 1

list_notes(kw) ==
    LET limit == Arg(kw, "limit", Num(DefaultLimit))
        page  == Arg(kw, "page", Num(DefaultPage))
    IN  [method |-> "GET", endpoint |-> "/notes",
         params |-> Dict([limit |-> limit, page |-> page, fields |-> Str(NOTE_FIELDS)]),
         json |-> None, post |-> "items"]

get_note(kw) ==
    [method |-> "GET", endpoint |-> "/notes/" \o kw.note_id[2],
     params |-> Dict([fields |-> Str(NOTE_FIELDS_WITH_BODY)]),
     json |-> None, post |-> "value"]

CreateNoteWhenNotNone(kw) ==
    LET parent_id == Arg(kw, "parent_id", None)
        data0 == [title |-> kw.title, body |-> kw.body]
        data1 == IF parent_id # None THEN SetItem(data0, "parent_id", parent_id) ELSE data0
    IN  [method |-> "POST", endpoint |-> "/notes", params |-> None,
         json |-> Dict(data1), post |-> "value"]

create_note(kw) ==
    LET parent_id == Arg(kw, "parent_id", None)
        data0 == [title |-> kw.title, body |-> kw.body]
        data1 == IF Truthy(parent_id) THEN SetItem(data0, "parent_id", parent_id) ELSE data0
    IN  [method |-> "POST", endpoint |-> "/notes", params |-> None,
         json |-> Dict(data1), post |-> "value"]

\* int(time.time() * 1000), the reading now being sec seconds and usec microseconds.
time_ms(now) == now.sec * 1000 + (now.usec \div 1000)

UpdateNoteWhenTruthy(kw, now) ==
    LET title == Arg(kw, "title", None)
        body == Arg(kw, "body", None)
        is_todo == Arg(kw, "is_todo", None)
        todo_completed == Arg(kw, "todo_completed", None)
        data0 == EmptyDict
        data1 == IF Truthy(title) THEN SetItem(data0, "title", title) ELSE data0
        data2 == IF Truthy(body) THEN SetItem(data1, "body", body) ELSE data1
        data3 == IF Truthy(is_todo) THEN SetItem(data2, "is_todo", Num(1)) ELSE data2
        data4 == IF Truthy(todo_completed)
                 THEN SetItem(data3, "todo_completed", Num(time_ms(now)))
                 ELSE data3
    IN  [method |-> "PUT", endpoint |-> "/notes/" \o kw.note_id[2], params |-> None,
         json |-> Dict(data4), post |-> "value"]

update_note(kw, now) ==
    LET title == Arg(kw, "title", None)
        body == Arg(kw, "body", None)
        is_todo == Arg(kw, "is_todo", None)
        todo_completed == Arg(kw, "todo_completed", None)
        data0 == EmptyDict
        data1 == IF title # None THEN SetItem(data0, "title", title) ELSE data0
        data2 == IF body # None THEN SetItem(data1, "body", body) ELSE data1
        data3 == IF is_todo # None
                 THEN SetItem(data2, "is_todo", IF Truthy(is_todo) THEN Num(1) ELSE Num(0))
                 ELSE data2
        data4 == IF todo_completed # None
                 THEN IF Truthy(todo_completed)
                      THEN SetItem(data3, "todo_completed", Num(time_ms(now)))
                      ELSE SetItem(data3, "todo_completed", Num(0))
                 ELSE data3
    IN  [method |-> "PUT", endpoint |-> "/notes/" \o kw.note_id[2], params |-> None,
         json |-> Dict(data4), post |-> "value"]

DeleteNoteAlwaysPermanentParam(kw) ==
    LET permanent == Arg(kw, "permanent", PyBool(FALSE))
        params1 == [permanent |-> IF Truthy(permanent) THEN Str("1") ELSE Str("0")]
    IN  [method |-> "DELETE", endpoint |-> "/notes/" \o kw.note_id[2],
         params |-> Dict(params1), json |-> None, post |-> "value"]

delete_note(kw) ==
    LET permanent == Arg(kw, "permanent", PyBool(FALSE))
        params0 == EmptyDict
        params1 == IF Truthy(permanent) THEN SetItem(params0, "permanent", Str("1")) ELSE params0
    IN  [method |-> "DELETE", endpoint |-> "/notes/" \o kw.note_id[2],
         params |-> Dict(params1), json |-> None, post |-> "value"]

search_notes(kw) ==
    LET limit == Arg(kw, "limit", Num(DefaultLimit))
        page  == Arg(kw, "page", Num(DefaultPage))
    IN  [method |-> "GET", endpoint |-> "/search",
         params |-> Dict([query |-> kw.query, limit |-> limit, page |-> page,
                          fields |-> Str(NOTE_FIELDS)]),
         json |-> None, post |-> "items"]

list_folders(kw) ==
    LET limit == Arg(kw, "limit", Num(DefaultLimit))
        page  == Arg(kw, "page", Num(DefaultPage))
    IN  [method |-> "GET", endpoint |-> "/folders",
         params |-> Dict([limit |-> limit, page |-> page, fields |-> Str(FOLDER_FIELDS)]),
         json |-> None, post |-> "items"]

\* The names registered with @mcp.tool(), which are the module's tool functions.
Tools == {"list_notes", "get_note", "create_note", "update_note", "delete_note",
          "search_notes", "list_folders"}

\* The body of the tool an invocation names.
ToolBody(inv, now) ==
    CASE inv.tool = "list_notes"   -> list_notes(inv.kw)
      [] inv.tool = "get_note"     -> get_note(inv.kw)
      [] inv.tool = "create_note"  -> create_note(inv.kw)
      [] inv.tool = "update_note"  -> update_note(inv.kw, now)
      [] inv.tool = "delete_note"  -> delete_note(inv.kw)
      [] inv.tool = "search_notes" -> search_notes(inv.kw)
      [] inv.tool = "list_folders" -> list_folders(inv.kw)

(***************************************************************************)
(* The objects of the heap.  A dict display ({} or {...}) evaluated by     *)
(* the invocation in slot c makes a new object, which no other invocation  *)
(* holds: the tool's own params dict (site "tool") and the dict that       *)
(* `params or {}` makes in _make_request (site "helper").                  *)
(***************************************************************************)
SharedAlloc(c, site) == <<1, site>>

Alloc(c, site) == <<c, site>>

Sites == {"tool", "helper"}
Addrs == Calls \X Sites
NoAddr == <<0, "none">>
EmptyHeap == [a \in Addrs |-> EmptyDict]

(***************************************************************************)
(* The request dispatcher _make_request.                                   *)
(***************************************************************************)
TokenIsNotNone(token) == token # None

\* `if not JOPLIN_TOKEN: raise ValueError` passes exactly when this holds.
TokenConfigured(token) == Truthy(token)

InjectTokenWhenNoParams(d, token) == IF DOMAIN d = {} THEN SetItem(d, "token", token) ELSE d

\* params["token"] = JOPLIN_TOKEN
inject_token(d, token) == SetItem(d, "token", token)

RaiseForClientAndServerErrors(status) == status >= 400

\* response.raise_for_status() raises HTTPStatusError exactly when this holds.
raise_for_status(status) == ~(200 <= status /\ status <= 299)

SessionClosedOnSuccessOnly(error) == IF error = "" THEN "closed" ELSE "open"

\* The session when `async with httpx.AsyncClient() as client:` is left, by
\* return or by an exception.
SessionAfterExit(error) == "closed"

WholeEnvelope(result) == result

\* result.get("items", []) of a decoded mapping.
get_items(result) == Get(result[2], "items", List(<<>>))

\* What cannot be decoded as JSON.
Garbage == <<"garbage">>

(***************************************************************************)
(* Frames.                                                                 *)
(***************************************************************************)
NoInvocation == [tool |-> "", kw |-> EmptyDict]
NoReading == [sec |-> 0, usec |-> 0]

IdleFrame ==
    [pc |-> "idle", inv |-> NoInvocation, now |-> NoReading,
     method |-> "", url |-> "", params |-> NoAddr, json |-> None, post |-> "",
     session |-> "none", wire |-> <<>>, resp |-> <<>>, retval |-> <<>>,
     result |-> <<>>, error |-> ""]

\* The invocation has failed before _make_request opened a session.
RaisedEarly(inv, now, error) ==
    [IdleFrame EXCEPT !.pc = "raised", !.inv = inv, !.now = now, !.error = error]

\* _make_request from its first line to `async with`, called by the
\* invocation in slot c with the arguments req, its params dict (if any) being
\* the object at address given; h is the heap.
make_request_entry(c, inv, now, req, given, token, base, h) ==
    IF ~TokenConfigured(token)
    THEN [frame |-> RaisedEarly(inv, now, "ValueError"), heap |-> h]
    ELSE LET keep == given # NoAddr /\ DOMAIN h[given] # {}
             addr == IF keep THEN given ELSE Alloc(c, "helper")
             h1   == IF keep THEN h ELSE [h EXCEPT ![addr] = EmptyDict]
             h2   == [h1 EXCEPT ![addr] = inject_token(@, token)]
         IN  [frame |-> [IdleFrame EXCEPT !.pc = "entering", !.inv = inv, !.now = now,
                                          !.method = req.method,
                                          !.url = base[2] \o req.endpoint,
                                          !.params = addr, !.json = req.json,
                                          !.post = req.post],
              heap |-> h2]

\* The first segment of an invocation: the lookup of the tool, the tool's
\* body, and _make_request up to its first await.
Enter(c, inv, now, token, base, h) ==
    IF inv.tool \notin Tools
    THEN [frame |-> RaisedEarly(inv, now, "AttributeError"), heap |-> h]
    ELSE LET req   == ToolBody(inv, now)
             given == IF IsDict(req.params) THEN Alloc(c, "tool") ELSE NoAddr
             h1    == IF IsDict(req.params) THEN [h EXCEPT ![given] = req.params[2]] ELSE h
         IN  make_request_entry(c, inv, now, req, given, token, base, h1)

\* The request client.request(method, url, params=params, json=json) puts on
\* the wire: params is read from the dict object when the request is built.
RequestOf(f, h) ==
    [method |-> f.method, url |-> f.url, params |-> Dict(h[f.params]), json |-> f.json]

\* _make_request from the response (or the transport's exception) to __aexit__.
AfterResponse(f, r) ==
    IF r.kind = "transport_error"
    THEN [f EXCEPT !.pc = "exiting", !.resp = <<r>>, !.error = "TransportError"]
    ELSE IF raise_for_status(r.status)
    THEN [f EXCEPT !.pc = "exiting", !.resp = <<r>>, !.error = "HTTPStatusError"]
    ELSE IF r.body = Garbage
    THEN [f EXCEPT !.pc = "exiting", !.resp = <<r>>, !.error = "JSONDecodeError"]
    ELSE [f EXCEPT !.pc = "exiting", !.resp = <<r>>, !.retval = <<r.body>>]

\* __aexit__, and then the rest of the tool: the exception propagates, or the
\* tool returns the value or its items.
AfterExit(f) ==
    LET g == [f EXCEPT !.session = SessionAfterExit(f.error)]
    IN  IF f.error # ""
        THEN [g EXCEPT !.pc = "raised"]
        ELSE IF f.post = "items"
        THEN IF IsDict(f.retval[1])
             THEN [g EXCEPT !.pc = "returned", !.result = <<get_items(f.retval[1])>>]
             ELSE [g EXCEPT !.pc = "raised", !.error = "AttributeError"]
        ELSE [g EXCEPT !.pc = "returned", !.result = f.retval]

(***************************************************************************)
(* The environment: what the host invokes, what the clock reads, and what  *)
(* the note server (or the transport) answers.                             *)
(***************************************************************************)
\* The values os.getenv("JOPLIN_TOKEN") can give: unset, empty, set.
TokenValues == {None, Str(""), Str("test-token")}

NoteId == Str("1")

UpdateNoteInvocations ==
    {[tool |-> "update_note",
      kw |-> [note_id |-> NoteId, title |-> t, body |-> b, is_todo |-> i,
              todo_completed |-> d]] :
        t \in {None, Str(""), Str("Updated Title")},
        b \in {None, Str(""), Str("text")},
        i \in {None, PyBool(FALSE), PyBool(TRUE)},
        d \in {None, PyBool(FALSE), PyBool(TRUE)}}
    \cup {[tool |-> "update_note", kw |-> [note_id |-> NoteId]],
          [tool |-> "update_note",
           kw |-> [note_id |-> NoteId, title |-> Str("Updated Title"),
                   todo_completed |-> PyBool(TRUE)]]}

CreateNoteInvocations ==
    {[tool |-> "create_note",
      kw |-> [title |-> Str("New Note"), body |-> b, parent_id |-> p]] :
        b \in {Str(""), Str("Body content")},
        p \in {None, Str(""), Str("folder123")}}
    \cup {[tool |-> "create_note",
           kw |-> [title |-> Str("New Note"), body |-> Str("Body content")]]}

DeleteNoteInvocations ==
    {[tool |-> "delete_note", kw |-> [note_id |-> NoteId]],
     [tool |-> "delete_note", kw |-> [note_id |-> NoteId, permanent |-> PyBool(FALSE)]],
     [tool |-> "delete_note", kw |-> [note_id |-> NoteId, permanent |-> PyBool(TRUE)]]}

ListInvocations ==
    {[tool |-> "list_notes", kw |-> EmptyDict],
     [tool |-> "list_notes", kw |-> [limit |-> Num(5), page |-> Num(1)]],
     [tool |-> "list_notes", kw |-> [limit |-> Num(5), page |-> Num(2)]],
     [tool |-> "search_notes", kw |-> [query |-> Str("Found")]],
     [tool |-> "search_notes", kw |-> [query |-> Str("tag:work"), limit |-> Num(5),
                                       page |-> Num(2)]],
     [tool |-> "list_folders", kw |-> EmptyDict],
     [tool |-> "list_folders", kw |-> [limit |-> Num(5), page |-> Num(1)]]}

\* What the host (or the test suite) may invoke on the module.
Invocations ==
    UpdateNoteInvocations \cup CreateNoteInvocations \cup DeleteNoteInvocations
    \cup ListInvocations
    \cup {[tool |-> "get_note", kw |-> [note_id |-> NoteId]],
          [tool |-> "list_notes_in_folder",
           kw |-> [folder_id |-> Str("folder123"), limit |-> Num(5), page |-> Num(1)]]}

\* The invocations the host issues concurrently.
ConcurrentInvocations ==
    {[tool |-> "delete_note", kw |-> [note_id |-> NoteId]],
     [tool |-> "delete_note", kw |-> [note_id |-> NoteId, permanent |-> PyBool(TRUE)]],
     [tool |-> "list_notes", kw |-> [limit |-> Num(5), page |-> Num(1)]],
     [tool |-> "create_note",
      kw |-> [title |-> Str("New Note"), body |-> Str("Body content")]]}

\* The readings of time.time(): seconds and the microseconds within the second.
ClockReadings == {[sec |-> 123456, usec |-> 789000], [sec |-> 1, usec |-> 999]}

\* update_note reads the clock exactly when todo_completed is true.
ReadsClock(inv) ==
    inv.tool = "update_note" /\ Truthy(Arg(inv.kw, "todo_completed", None))

Readings(inv) == IF ReadsClock(inv) THEN ClockReadings ELSE {NoReading}

Note1 == Dict([id |-> Str("1"), title |-> Str("Test Note")])
Note2 == Dict([id |-> Str("3"), title |-> Str("Found Note")])
ItemsEnvelope == Dict([items |-> List(<<Note1, Note2>>), has_more |-> PyBool(FALSE)])
NoItemsEnvelope == Dict([has_more |-> PyBool(FALSE)])
Entity == Dict([id |-> Str("2"), title |-> Str("New Note")])
JsonArray == List(<<Note1>>)
ErrorBody == Dict([error |-> Str("Not Found")])

TransportFailure == [kind |-> "transport_error", status |-> 0, body |-> None]
Response(status, body) == [kind |-> "response", status |-> status, body |-> body]

\* What client.request may end in.
Responses ==
    {TransportFailure}
    \cup {Response(200, b) : b \in {ItemsEnvelope, NoItemsEnvelope, Entity, JsonArray, Garbage}}
    \cup {Response(s, ErrorBody) : s \in {302, 404}}

\* The answers to the invocations issued concurrently.
ConcurrentResponses ==
    {TransportFailure, Response(404, ErrorBody), Response(200, ItemsEnvelope)}

(***************************************************************************)
(* The state machine.                                                      *)
(***************************************************************************)
Init ==
    /\ JOPLIN_BASE_URL = Str("http://localhost:41184")
    /\ JOPLIN_TOKEN \in TokenValues
    /\ frame = [c \in Calls |-> IdleFrame]
    /\ heap = EmptyHeap
    /\ permanentSeen = FALSE

\* The host invokes a tool in slot c; the invocation runs to its first await.
Call(c, inv, now) ==
    /\ frame[c].pc = "idle"
    /\ LET e == Enter(c, inv, now, JOPLIN_TOKEN, JOPLIN_BASE_URL, heap)
       IN  /\ frame' = [frame EXCEPT ![c] = e.frame]
           /\ heap' = e.heap
    /\ UNCHANGED <<JOPLIN_BASE_URL, JOPLIN_TOKEN, permanentSeen>>

\* `async with httpx.AsyncClient() as client:` is entered.
Open(c) ==
    /\ frame[c].pc = "entering"
    /\ frame' = [frame EXCEPT ![c].pc = "requesting", ![c].session = "open"]
    /\ UNCHANGED <<JOPLIN_BASE_URL, JOPLIN_TOKEN, heap, permanentSeen>>

\* client.request(...) builds the request and sends it.
SendRequest(c) ==
    /\ frame[c].pc = "requesting"
    /\ LET req == RequestOf(frame[c], heap)
       IN  /\ frame' = [frame EXCEPT ![c].pc = "awaiting",
                                     ![c].wire = Append(@, req)]
           /\ permanentSeen' = (permanentSeen \/ "permanent" \in DOMAIN req.params[2])
    /\ UNCHANGED <<JOPLIN_BASE_URL, JOPLIN_TOKEN, heap>>

\* The await of client.request ends, in the response r or in an exception.
Receive(c, r) ==
    /\ frame[c].pc = "awaiting"
    /\ frame' = [frame EXCEPT ![c] = AfterResponse(@, r)]
    /\ UNCHANGED <<JOPLIN_BASE_URL, JOPLIN_TOKEN, heap, permanentSeen>>

\* The async with block is left and the tool finishes.
Exit(c) ==
    /\ frame[c].pc = "exiting"
    /\ frame' = [frame EXCEPT ![c] = AfterExit(@)]
    /\ UNCHANGED <<JOPLIN_BASE_URL, JOPLIN_TOKEN, heap, permanentSeen>>

\* The host takes the result or the exception; the frame and its objects go.
Return(c) ==
    /\ frame[c].pc \in {"returned", "raised"}
    /\ frame' = [frame EXCEPT ![c] = IdleFrame]
    /\ heap' = [a \in Addrs |->
                  IF a \in {Alloc(c, s) : s \in Sites} THEN EmptyDict ELSE heap[a]]
    /\ UNCHANGED <<JOPLIN_BASE_URL, JOPLIN_TOKEN, permanentSeen>>

\* The host runs one invocation at a time (asyncio.run of one coroutine): it
\* invokes a tool only when no invocation is in flight.
Invoke(c, inv, now) ==
    /\ \A d \in Calls : frame[d].pc = "idle"
    /\ Call(c, inv, now)

Next ==
    \E c \in Calls :
        \/ \E inv \in Invocations : \E now \in Readings(inv) : Invoke(c, inv, now)
        \/ Open(c)
        \/ SendRequest(c)
        \/ \E r \in Responses : Receive(c, r)
        \/ Exit(c)
        \/ Return(c)

Spec == Init /\ [][Next]_vars

\* The host has several invocations in flight, interleaved at their awaits.
ConcNext ==
    \E c \in Calls :
        \/ \E inv \in ConcurrentInvocations : \E now \in Readings(inv) : Call(c, inv, now)
        \/ Open(c)
        \/ SendRequest(c)
        \/ \E r \in ConcurrentResponses : Receive(c, r)
        \/ Exit(c)
        \/ Return(c)

ConcSpec == Init /\ [][ConcNext]_vars

TypeOK ==
    /\ JOPLIN_TOKEN \in TokenValues
    /\ \A c \in Calls :
        /\ frame[c].pc \in {"idle", "entering", "requesting", "awaiting", "exiting",
                            "returned", "raised"}
        /\ frame[c].session \in {"none", "open", "closed"}

(***************************************************************************)
(* The claims.                                                             *)
(***************************************************************************)
TokenUnset == JOPLIN_TOKEN \in {None, Str("")}
Finished(f) == f.pc \in {"returned", "raised"}
IsSuccess(r) == r.kind = "response" /\ r.status \in 200..299
ListTools == {"list_notes", "search_notes", "list_folders"}

\* C1: when the access token is unset or empty, no call of any of the seven
\* tools issues a request, opens a session or returns a value, and every such
\* call fails with the configuration error.
C1_NoTokenNoRequest ==
    TokenUnset =>
        \A c \in Calls :
            /\ frame[c].pc \in {"idle", "raised"}
            /\ frame[c].wire = <<>>
            /\ frame[c].session = "none"
            /\ frame[c].result = <<>>
            /\ (frame[c].pc = "raised" /\ frame[c].inv.tool \in Tools)
                   => frame[c].error = "ValueError"

C1_Witness ==
    /\ JOPLIN_TOKEN = Str("")
    /\ \E c \in Calls :
        /\ frame[c].inv.tool = "list_notes"
        /\ frame[c].pc = "raised"
        /\ frame[c].error = "ValueError"

\* C2: every request on the wire carries token, equal to the configured
\* access token, beside the tool's own query parameters, each unchanged.
C2_TokenOnEveryRequest ==
    \A c \in Calls :
        \A i \in 1..Len(frame[c].wire) :
            LET q   == frame[c].wire[i].params[2]
                own == ToolBody(frame[c].inv, frame[c].now).params
                ownKeys == IF IsDict(own) THEN DOMAIN own[2] ELSE {}
            IN  /\ "token" \in DOMAIN q
                /\ q["token"] = JOPLIN_TOKEN
                /\ DOMAIN q = ownKeys \cup {"token"}
                /\ \A k \in ownKeys : q[k] = own[2][k]

C2_Witness ==
    \E c \in Calls :
        /\ Len(frame[c].wire) = 1
        /\ frame[c].wire[1].method = "DELETE"
        /\ frame[c].wire[1].params = Dict([permanent |-> Str("1"), token |-> Str("test-token")])

\* C3: an invocation that passed the token check opens a session, issues
\* exactly one request inside it, and has released the session when it
\* returns or fails, whatever the request ended in.
C3_Lifecycle ==
    \A c \in Calls :
        LET f == frame[c]
        IN  /\ Len(f.wire) <= 1
            /\ f.session = "open" <=> f.pc \in {"requesting", "awaiting", "exiting"}
            /\ f.pc \in {"entering", "requesting"} => Len(f.wire) = 0
            /\ f.pc \in {"awaiting", "exiting"} => Len(f.wire) = 1
            /\ (Finished(f) /\ f.inv.tool \in Tools /\ ~TokenUnset)
                   => Len(f.wire) = 1 /\ f.session = "closed"

C3_Witness ==
    \E c \in Calls :
        /\ frame[c].pc = "raised"
        /\ frame[c].error = "HTTPStatusError"
        /\ Len(frame[c].wire) = 1
        /\ frame[c].session = "closed"

\* C4: a finished call whose request ended in a transport failure or a
\* non-success status has failed with that error and holds no result (a list
\* tool gives no empty sequence); a call returns a value only after a success
\* status with a decodable body.
C4_AllOrNothing ==
    \A c \in Calls :
        LET f == frame[c]
        IN  Finished(f) =>
                /\ f.pc = "raised" => f.result = <<>> /\ f.error # ""
                /\ f.resp = <<>> => f.pc = "raised"
                /\ f.resp # <<>> =>
                    /\ f.resp[1].kind = "transport_error"
                           => f.pc = "raised" /\ f.error = "TransportError"
                    /\ (f.resp[1].kind = "response" /\ ~IsSuccess(f.resp[1]))
                           => f.pc = "raised" /\ f.error = "HTTPStatusError"
                    /\ f.pc = "returned"
                           => /\ IsSuccess(f.resp[1])
                              /\ f.resp[1].body # Garbage
                              /\ f.result # <<>>
                              /\ f.error = ""

C4_Witness ==
    \E c \in Calls :
        /\ frame[c].inv.tool \in ListTools
        /\ frame[c].pc = "raised"
        /\ frame[c].resp = <<Response(302, ErrorBody)>>
        /\ frame[c].error = "HTTPStatusError"
        /\ frame[c].result = <<>>

OptionalFields == {"title", "body", "is_todo", "todo_completed"}

\* The optional fields the caller of update_note provided (not None).
Provided(kw) == {k \in OptionalFields : Arg(kw, k, None) # None}

\* C5: update_note issues PUT /notes/{note_id} whose JSON body has exactly
\* the provided optional fields as keys and no null value: title and body as
\* given, is_todo as 1/0, todo_completed false as 0 and true as the clock
\* reading in epoch-milliseconds.
C5_UpdateNoteBody ==
    \A c \in Calls :
        (frame[c].inv.tool = "update_note" /\ Len(frame[c].wire) = 1) =>
            LET kw  == frame[c].inv.kw
                now == frame[c].now
                req == frame[c].wire[1]
                j   == req.json[2]
            IN  /\ req.method = "PUT"
                /\ req.url = JOPLIN_BASE_URL[2] \o "/notes/" \o kw.note_id[2]
                /\ IsDict(req.json)
                /\ DOMAIN j = Provided(kw)
                /\ \A k \in DOMAIN j : j[k] # None
                /\ "title" \in DOMAIN j => j["title"] = kw.title
                /\ "body" \in DOMAIN j => j["body"] = kw.body
                /\ "is_todo" \in DOMAIN j =>
                       j["is_todo"] = IF kw.is_todo = PyBool(TRUE) THEN Num(1) ELSE Num(0)
                /\ "todo_completed" \in DOMAIN j =>
                       j["todo_completed"] =
                           IF kw.todo_completed = PyBool(TRUE)
                           THEN Num(now.sec * 1000 + (now.usec \div 1000))
                           ELSE Num(0)

C5_Witness ==
    \E c \in Calls :
        /\ frame[c].inv.tool = "update_note"
        /\ frame[c].inv.kw = [note_id |-> NoteId, title |-> Str(""), body |-> None,
                              is_todo |-> PyBool(FALSE), todo_completed |-> PyBool(TRUE)]
        /\ frame[c].now = [sec |-> 123456, usec |-> 789000]
        /\ Len(frame[c].wire) = 1
        /\ frame[c].wire[1].json =
               Dict([title |-> Str(""), is_todo |-> Num(0), todo_completed |-> Num(123456789)])

\* C6: a list tool that returns gives exactly the items sequence of the
\* decoded envelope, in the server's order and without the envelope's other
\* fields, and an empty sequence when the envelope has no items field.
C6_ItemsOfEnvelope ==
    \A c \in Calls :
        (frame[c].inv.tool \in ListTools /\ frame[c].pc = "returned") =>
            LET body == frame[c].resp[1].body
            IN  /\ IsDict(body)
                /\ frame[c].result =
                       <<IF "items" \in DOMAIN body[2] THEN body[2]["items"] ELSE List(<<>>)>>

C6_Witness ==
    /\ \E c \in Calls :
        /\ frame[c].inv.tool = "search_notes"
        /\ frame[c].pc = "returned"
        /\ frame[c].resp[1].body = NoItemsEnvelope
        /\ frame[c].result = <<List(<<>>)>>

\* C7: create_note issues POST /notes whose JSON body holds title and body
\* as given, and parent_id exactly when the caller gave a non-empty one; it
\* returns the server's mapping unchanged.
C7_CreateNoteBody ==
    \A c \in Calls :
        (frame[c].inv.tool = "create_note" /\ Len(frame[c].wire) = 1) =>
            LET kw  == frame[c].inv.kw
                pid == Arg(kw, "parent_id", None)
                req == frame[c].wire[1]
                j   == req.json[2]
            IN  /\ req.method = "POST"
                /\ req.url = JOPLIN_BASE_URL[2] \o "/notes"
                /\ IsDict(req.json)
                /\ j["title"] = kw.title
                /\ j["body"] = kw.body
                /\ "parent_id" \in DOMAIN j <=> pid \notin {None, Str("")}
                /\ "parent_id" \in DOMAIN j => j["parent_id"] = pid
                /\ DOMAIN j \subseteq {"title", "body", "parent_id"}
                /\ \A k \in DOMAIN j : j[k] # None
                /\ frame[c].pc = "returned" => frame[c].result = <<frame[c].resp[1].body>>

C7_Witness ==
    \E c \in Calls :
        /\ frame[c].inv.tool = "create_note"
        /\ frame[c].inv.kw.body = Str("Body content")
        /\ "parent_id" \in DOMAIN frame[c].inv.kw
        /\ frame[c].inv.kw.parent_id = Str("")
        /\ frame[c].pc = "returned"
        /\ frame[c].wire[1].json = Dict([title |-> Str("New Note"), body |-> Str("Body content")])
        /\ frame[c].result = <<Entity>>

\* C8: delete_note issues DELETE /notes/{note_id} with no body; its query
\* parameters are token and, exactly when permanent is true, permanent = "1".
\* This holds of every call in every sequence of calls.
C8_DeleteNoteParams ==
    \A c \in Calls :
        (frame[c].inv.tool = "delete_note" /\ Len(frame[c].wire) = 1) =>
            LET kw  == frame[c].inv.kw
                permanent == Arg(kw, "permanent", PyBool(FALSE))
                req == frame[c].wire[1]
            IN  /\ req.method = "DELETE"
                /\ req.url = JOPLIN_BASE_URL[2] \o "/notes/" \o kw.note_id[2]
                /\ req.json = None
                /\ req.params =
                       IF permanent = PyBool(TRUE)
                       THEN Dict([permanent |-> Str("1"), token |-> JOPLIN_TOKEN])
                       ELSE Dict([token |-> JOPLIN_TOKEN])

\* A soft delete after a permanent delete.
C8_Witness ==
    /\ permanentSeen
    /\ \E c \in Calls :
        /\ frame[c].inv = [tool |-> "delete_note", kw |-> [note_id |-> NoteId]]
        /\ Len(frame[c].wire) = 1
        /\ frame[c].wire[1].params = Dict([token |-> Str("test-token")])
        /\ frame[c].pc = "returned"

\* C9: a call of list_notes_in_folder(folder_id, limit, page) issues
\* GET /folders/{folder_id}/notes with limit, page, the metadata field list
\* and the token, without a body, and returns the items of the response.
C9_ListNotesInFolder ==
    \A c \in Calls :
        (frame[c].inv.tool = "list_notes_in_folder" /\ Finished(frame[c]) /\ ~TokenUnset) =>
            LET kw == frame[c].inv.kw
            IN  /\ frame[c].wire =
                       <<[method |-> "GET",
                          url |-> JOPLIN_BASE_URL[2] \o "/folders/" \o kw.folder_id[2] \o "/notes",
                          params |-> Dict([limit |-> kw.limit, page |-> kw.page,
                                           fields |-> Str(NOTE_FIELDS),
                                           token |-> JOPLIN_TOKEN]),
                          json |-> None]>>
                /\ frame[c].error # "AttributeError"

(***************************************************************************)
(* Concurrent invocations.                                                 *)
(***************************************************************************)
\* The invocation of slot c run alone, on a heap no other invocation uses.
Alone(c) ==
    Enter(c, frame[c].inv, frame[c].now, JOPLIN_TOKEN, JOPLIN_BASE_URL, EmptyHeap)

AloneRequest(c) == RequestOf(Alone(c).frame, Alone(c).heap)

AloneOutcome(c) ==
    AfterExit(AfterResponse([Alone(c).frame EXCEPT !.session = "open",
                                                   !.wire = <<AloneRequest(c)>>],
                            frame[c].resp[1]))

C10_SameAsAlone ==
    \A c \in Calls :
        /\ Len(frame[c].wire) >= 1 => frame[c].wire = <<AloneRequest(c)>>
        /\ (Finished(frame[c]) /\ frame[c].resp # <<>>) => frame[c] = AloneOutcome(c)

\* C10: under every interleaving of the invocations in flight, each one's
\* request and outcome are those of the same invocation run alone, and no
\* step changes the configuration.
C10_Independent ==
    /\ []C10_SameAsAlone
    /\ [][JOPLIN_BASE_URL' = JOPLIN_BASE_URL /\ JOPLIN_TOKEN' = JOPLIN_TOKEN]_vars

\* Two invocations in flight at once, each with its request on the wire: a
\* permanent delete and a soft delete.
C10_Witness ==
    \E c, d \in Calls :
        /\ c # d
        /\ frame[c].inv.tool = "delete_note"
        /\ Truthy(Arg(frame[c].inv.kw, "permanent", PyBool(FALSE)))
        /\ frame[c].pc = "awaiting"
        /\ frame[c].wire[1].params = Dict([permanent |-> Str("1"), token |-> Str("test-token")])
        /\ frame[d].inv.tool = "delete_note"
        /\ ~Truthy(Arg(frame[d].inv.kw, "permanent", PyBool(FALSE)))
        /\ frame[d].pc = "awaiting"
        /\ frame[d].wire[1].params = Dict([token |-> Str("test-token")])

=============================================================================
